---- MODULE Spec2Model ----
(***************************************************************************)
(* mu::lf::queue<T> (Michael-Scott queue over tagged pointers) with its    *)
(* free list, a mu::lf::stack<tagged_ptr<node>> that holds node handles by *)
(* value, and mu::lf::stack<T> itself with its two intrusive               *)
(* impl::stack<node>.  Every read of a shared word and every               *)
(* compare_set_strong is one step of the calling thread.                   *)
(***************************************************************************)
EXTENDS Integers, Sequences, FiniteSets, TLC

\* ------------------------------------------------------------------ bounds
Threads == 2          \* threads of the concurrent specification
MaxPush == 3          \* push/emplace calls started in one behaviour
MaxPop == 2           \* pop calls started in one behaviour
MaxCap == 2           \* largest initial_capacity given to the constructor
SeqPush == 4          \* push/emplace calls of the single-threaded specification
SeqPop == 4           \* pop calls of the single-threaded specification
TagAddrs == 1         \* tagged pointers under test address 0..TagAddrs
TagSpan == 1          \* tags under test lie within TagSpan of 0 and of MAX_TAG
MaxHeap == 6          \* most elements pushed on the heap under test
MaxElem == 2          \* heap elements are 0..MaxElem
WrapPush == 6         \* push/emplace calls of the i386 specification
WrapPop == 8          \* pop calls of the i386 specification

\* ------------------------------------------------------- program constants
MAX_TAG == 65535      \* arch::MAX_TAG, x86_64
MAX_TAG_I386 == 3     \* arch::MAX_TAG, i386

Null == 0             \* the address nullptr
NoVal == 0            \* the id_ of a default constructed T
Procs == 1..Threads

\* ---------------------------------------------------------- tagged_ptr<T>
\* A tagged pointer word: address a and tag g (the high 16 bits).
TP(a, g) == [a |-> a, g |-> g]
NullTP == TP(Null, 0)

\* arch::untag(ptr): the address bits.
untag(ptr) == ptr.a

\* arch::tag(ptr): the tag bits.
get_tag(ptr) == ptr.g

\* arch::tag(ptr, tag) had it reduced the tag modulo MAX_TAG.
arch_tag_mod_max(ptr, tg) == TP(untag(ptr), tg % MAX_TAG)

\* The architecture the program is built for, "x86_64" or "i386"; it selects
\* arch::MAX_TAG and the arch::tag / arch::untag specialisations.
VARIABLE arch

\* arch::MAX_TAG of the build.
max_tag == IF arch = "i386" THEN MAX_TAG_I386 ELSE MAX_TAG

\* arch::tag(ptr, tag).  x86_64: untag(ptr) | (tag << 48), the shift keeps
\* the low 16 bits of tag.  i386: untag(ptr) | (tag & MASK), the low 2 bits.
arch_tag(ptr, tg) == TP(untag(ptr), tg % (max_tag + 1))

\* tagged_ptr::set_tag(o): this address with o's tag.
set_tag(p, o) == arch_tag(p, get_tag(o))

\* tagged_ptr::increment_tag(): this address with tag + 1.
increment_tag(p) == arch_tag(p, get_tag(p) + 1)

\* A comparison of the address bits alone.
tp_eq_address(p, o) == p.a = o.a

\* tagged_ptr::operator==: the whole words are compared.
tp_eq(p, o) == p.a = o.a /\ p.g = o.g

\* tagged_ptr::compare_set_strong(expected, desired) on the word cur: the
\* word afterwards.
compare_set_strong(cur, expected, desired) ==
    IF tp_eq(cur, expected) THEN desired ELSE cur

\* -------------------------------------------- mu::lf::stack<T> (free list)
\* queue::free_ is a stack<tagged_ptr<node>>: it keeps every pushed handle in
\* a node of its own and never links a queue node through next_.  A node
\* popped from its chain is not pushed again, so a push or a pop takes
\* effect at its one successful CAS on the stack's head: each is one step.
\* stack<T>::push(v): v becomes the top value.
stack_push(s, v) == <<v>> \o s

\* stack<T>::pop(out): the top value leaves the stack.
stack_pop(s) == Tail(s)

\* stack<T>::empty()
stack_empty(s) == s = <<>>

\* ------------------------------------------------------------------- state
VARIABLES
    phase,      \* "new" before the constructor ran, "live" after
    capacity_,  \* queue::capacity_
    head_,      \* queue::head_
    tail_,      \* queue::tail_
    free_,      \* queue::free_: the handles on the free list, top first
    nodes,      \* addresses of the nodes allocated with new and not deleted
    nalloc,     \* number of nodes allocated with new so far
    next_,      \* node::next_ of every address
    value_,     \* node::value_ of every address
    pc,         \* where each thread is
    op,         \* the call each thread is in: "push", "emplace", "pop"
    arg,        \* the value passed to push/emplace
    n,          \* enqueue: the node to link; dequeue: the local n
    tail,       \* enqueue: the local tail
    next,       \* enqueue: the local next
    h,          \* dequeue: the local h
    t,          \* dequeue: the local t
    value,      \* dequeue: the T& the value is copied into
    cap0,       \* the initial_capacity the constructor was given
    nextId,     \* the id of the next value pushed
    enq,        \* ids in the order of the successful CAS on a next_ field
                \* (stack: of the successful CAS of a push on stack_.head_)
    deq,        \* ids in the order of the successful CAS on head_
                \* (stack: of the successful CAS of a pop on stack_.head_)
    pushed,     \* ids whose push/emplace returned
    popped,     \* ids returned by pop, in the order of return
    control,    \* the reference list of the tests (std::list)
    lastPop,    \* what the last completed pop returned and what control held
    npop,       \* pop calls started
    quiet,      \* per thread: the chain held no payload node since its pop began
    lastThrow,  \* the last exception that reached a caller
    sphase,     \* stack: "new" before the constructor ran, "live" after
    stack_,     \* stack::stack_.head_
    sfree_,     \* stack::free_.head_
    snext_,     \* stack::node::next_ of every address
    svalue_,    \* stack::node::value_ of every address
    snodes,     \* addresses of the stack nodes allocated and not deleted
    snalloc,    \* number of stack nodes allocated with new so far
    allocated,  \* stack::emplace: the local allocated
    hb,         \* per id: the ids whose push had returned when its push was called
    seen,       \* per thread: the ids whose push had returned when its pop was called
    stale,      \* per thread: the node of its snapshot h was popped since
    ptr_,       \* tagged_ptr::ptr_ of the tagged pointer the operations are applied to
    targ,       \* the arguments: o (expected or other), d (desired), t (a tag)
    tres,       \* the last operation applied: what ptr_ was and what it returned
    heap_,      \* adt::heap::heap_
    es,         \* heap test: the elements still to push
    es0,        \* heap test: all the elements given
    order       \* heap test: what top() returned before each pop, in order

shared == <<phase, capacity_, head_, tail_, free_, nodes, nalloc, next_, value_>>
locals == <<pc, op, arg, n, tail, next, h, t, value>>
ghost == <<cap0, nextId, enq, deq, pushed, popped, control, lastPop, npop,
           quiet, lastThrow>>
stackvars == <<sphase, stack_, sfree_, snext_, svalue_, snodes, snalloc, allocated>>
tagvars == <<ptr_, targ, tres>>
heapvars == <<heap_, es, es0, order>>
purevars == <<tagvars, heapvars, arch>>
lfvars == <<shared, locals, ghost, stackvars, hb, seen, stale>>
vars == <<lfvars, purevars>>

MaxNodes == MaxCap + MaxPush + SeqPush + 2
Addrs == 1..MaxNodes
Ids == 1..(MaxPush + SeqPush)

\* No exception has reached a caller.
NoThrow == [op |-> "none", id |-> NoVal]

Empty == [ok |-> FALSE, id |-> NoVal]
Got(v) == [ok |-> TRUE, id |-> v]

\* No tagged pointer operation has been applied.
NoOp == [op |-> "none", was |-> NullTP, word |-> NullTP, ok |-> FALSE]

\* The queue and the stack before their constructors ran.
InitLf ==
    /\ phase = "new"
    /\ capacity_ = 0
    /\ head_ = NullTP
    /\ tail_ = NullTP
    /\ free_ = <<>>
    /\ nodes = {}
    /\ nalloc = 0
    /\ next_ = [a \in Addrs |-> NullTP]
    /\ value_ = [a \in Addrs |-> NoVal]
    /\ pc = [p \in Procs |-> "idle"]
    /\ op = [p \in Procs |-> "none"]
    /\ arg = [p \in Procs |-> NoVal]
    /\ n = [p \in Procs |-> NullTP]
    /\ tail = [p \in Procs |-> NullTP]
    /\ next = [p \in Procs |-> NullTP]
    /\ h = [p \in Procs |-> NullTP]
    /\ t = [p \in Procs |-> NullTP]
    /\ value = [p \in Procs |-> NoVal]
    /\ cap0 = 0
    /\ nextId = 1
    /\ enq = <<>>
    /\ deq = <<>>
    /\ pushed = {}
    /\ popped = <<>>
    /\ control = <<>>
    /\ lastPop = [got |-> Empty, want |-> Empty]
    /\ npop = 0
    /\ quiet = [p \in Procs |-> FALSE]
    /\ lastThrow = NoThrow
    /\ sphase = "new"
    /\ stack_ = NullTP
    /\ sfree_ = NullTP
    /\ snext_ = [a \in Addrs |-> NullTP]
    /\ svalue_ = [a \in Addrs |-> NoVal]
    /\ snodes = {}
    /\ snalloc = 0
    /\ allocated = [p \in Procs |-> FALSE]
    /\ hb = [i \in Ids |-> {}]
    /\ seen = [p \in Procs |-> {}]
    /\ stale = [p \in Procs |-> FALSE]

\* No tagged pointer under test.
InitTagIdle ==
    /\ ptr_ = NullTP
    /\ targ = [o |-> NullTP, d |-> NullTP, t |-> 0]
    /\ tres = NoOp

\* No heap under test.
InitHeapIdle ==
    /\ heap_ = <<>>
    /\ es = <<>>
    /\ es0 = <<>>
    /\ order = <<>>

Init == InitLf /\ InitTagIdle /\ InitHeapIdle /\ arch = "x86_64"

\* ------------------------------------------------------------- the chain
\* The addresses met following next_ from address a, at most fuel of them.
RECURSIVE Walk(_, _)
Walk(a, fuel) ==
    IF a = Null \/ fuel = 0 THEN <<>>
    ELSE <<a>> \o Walk(untag(next_[a]), fuel - 1)

\* The chain from head_, sentinel first.
Chain == Walk(untag(head_), MaxNodes + 1)

\* The chain from head_ is the sentinel alone.
NoPayload == Len(Chain) = 1

\* No call is in progress.
Quiescent == \A p \in Procs : pc[p] = "idle"

\* queue<T>::empty()
empty == tp_eq(head_, tail_)

\* ------------------------------------------------------------ construction
\* The loop of queue<T>::queue: i new nodes pushed on the free list.
RECURSIVE Provision(_, _, _)
Provision(i, count, fr) ==
    IF i < count THEN Provision(i + 1, count, stack_push(fr, TP(i + 1, 0)))
    ELSE fr

\* queue<T>::alloc_node on free list fr with na nodes allocated so far:
\* the handle returned, the free list, the allocation count and the
\* capacity increment.
alloc_node(fr, na) ==
    IF ~stack_empty(fr)
    THEN [n |-> Head(fr), free |-> stack_pop(fr), nalloc |-> na, grow |-> 0]
    ELSE [n |-> TP(na + 1, 0), free |-> fr, nalloc |-> na + 1, grow |-> 1]

\* queue<T>::queue(initial_capacity_count)
Ctor(count) ==
    /\ phase = "new"
    /\ LET fr == Provision(0, count, <<>>)
           r == alloc_node(fr, count)
       IN  /\ capacity_' = count + r.grow
           /\ free_' = r.free
           /\ nalloc' = r.nalloc
           /\ nodes' = 1..r.nalloc
           /\ head_' = r.n
           /\ tail_' = r.n
    /\ phase' = "live"
    /\ cap0' = count
    /\ UNCHANGED <<next_, value_, locals>>
    /\ UNCHANGED <<nextId, enq, deq, pushed, popped, control, lastPop, npop>>
    /\ UNCHANGED <<quiet, lastThrow, stackvars>>
    /\ UNCHANGED <<purevars, hb, seen, stale>>

\* queue<T>::destroy: the allocated nodes nd once every handle popped from
\* the free list fr is deleted.
destroy(fr, nd) == nd \ {untag(fr[i]) : i \in DOMAIN fr}

\* queue<T>::queue when an allocation throws in iteration k of the loop:
\* at "node" in new node(), also in alloc_node's new node() when count is
\* 0; at "push" in free_.push(n), which allocates a node of the stack when
\* the stack's own free list is used up.  The catch block calls destroy()
\* and rethrows.
CtorThrow(count, k, at) ==
    /\ phase = "new"
    /\ \/ at = "node" /\ (k < count \/ (count = 0 /\ k = 0))
       \/ at = "push" /\ k < count
    /\ LET fr == Provision(0, k, <<>>)
           made == IF at = "push" THEN k + 1 ELSE k
       IN  /\ nalloc' = made
           /\ nodes' = destroy(fr, 1..made)
    /\ capacity_' = count
    /\ free_' = <<>>
    /\ phase' = "failed"
    /\ cap0' = count
    /\ lastThrow' = [op |-> "queue", id |-> NoVal]
    /\ UNCHANGED <<head_, tail_, next_, value_, locals>>
    /\ UNCHANGED <<nextId, enq, deq, pushed, popped, control, lastPop, npop>>
    /\ UNCHANGED <<quiet, stackvars>>
    /\ UNCHANGED <<purevars, hb, seen, stale>>

\* queue<T>::~queue on a queue no thread is in.  assert(empty()) ends the
\* program when head_ and tail_ differ.
Dtor ==
    /\ phase = "live"
    /\ Quiescent
    /\ empty
    /\ nodes' = destroy(free_, nodes)
    /\ free_' = <<>>
    /\ phase' = "dead"
    /\ UNCHANGED <<capacity_, head_, tail_, nalloc, next_, value_>>
    /\ UNCHANGED <<locals, ghost, stackvars>>
    /\ UNCHANGED <<purevars, hb, seen, stale>>

\* -------------------------------------------------------------- push/emplace
\* A thread calls push(const T&) or emplace(T&&) with a fresh id.
Call(p, kind, lim) ==
    /\ phase = "live"
    /\ pc[p] = "idle"
    /\ nextId <= lim
    /\ pc' = [pc EXCEPT ![p] = "alloc"]
    /\ op' = [op EXCEPT ![p] = kind]
    /\ arg' = [arg EXCEPT ![p] = nextId]
    /\ nextId' = nextId + 1
    /\ UNCHANGED <<shared, n, tail, next, h, t, value>>
    /\ UNCHANGED <<cap0, enq, deq, pushed, popped, control, lastPop, npop>>
    /\ UNCHANGED <<quiet, lastThrow, stackvars>>
    /\ hb' = [hb EXCEPT ![nextId] = pushed]
    /\ UNCHANGED <<purevars, seen, stale>>

CallPush(p, lim) == Call(p, "push", lim)

CallEmplace(p, lim) == Call(p, "emplace", lim)

\* The locals of a thread whose call returned.
Return(p) ==
    /\ pc' = [pc EXCEPT ![p] = "idle"]
    /\ op' = [op EXCEPT ![p] = "none"]
    /\ arg' = [arg EXCEPT ![p] = NoVal]
    /\ n' = [n EXCEPT ![p] = NullTP]
    /\ tail' = [tail EXCEPT ![p] = NullTP]
    /\ next' = [next EXCEPT ![p] = NullTP]
    /\ h' = [h EXCEPT ![p] = NullTP]
    /\ t' = [t EXCEPT ![p] = NullTP]
    /\ value' = [value EXCEPT ![p] = NoVal]

\* push/emplace: tagged_ptr<node> n = alloc_node();
Alloc(p) ==
    /\ pc[p] = "alloc"
    /\ LET r == alloc_node(free_, nalloc)
       IN  /\ n' = [n EXCEPT ![p] = r.n]
           /\ free_' = r.free
           /\ nalloc' = r.nalloc
           /\ nodes' = nodes \cup {untag(r.n)}
           /\ capacity_' = capacity_ + r.grow
    /\ pc' = [pc EXCEPT ![p] = "assign"]
    /\ UNCHANGED <<phase, head_, tail_, next_, value_>>
    /\ UNCHANGED <<op, arg, tail, next, h, t, value, ghost, stackvars>>
    /\ UNCHANGED <<purevars, hb, seen, stale>>

\* A recycled node would keep the next_ word of its last use.
EnqueueNextKept(old) == old

\* enqueue: n->next_ = nullptr stores the null address with tag 0, whatever
\* the word old was.
EnqueueNext(old) == NullTP

\* push/emplace: n->value_ = value succeeds; enqueue(n) starts with
\* n->next_ = nullptr.
Assign(p) ==
    /\ pc[p] = "assign"
    /\ value_' = [value_ EXCEPT ![untag(n[p])] = arg[p]]
    /\ next_' = [next_ EXCEPT ![untag(n[p])] = EnqueueNext(next_[untag(n[p])])]
    /\ pc' = [pc EXCEPT ![p] = "E_tail"]
    /\ UNCHANGED <<phase, capacity_, head_, tail_, free_, nodes, nalloc>>
    /\ UNCHANGED <<op, arg, n, tail, next, h, t, value, ghost, stackvars>>
    /\ UNCHANGED <<purevars, hb, seen, stale>>

\* A free_node that drops the node.
FreeNodeDropped(fr, e) == fr

\* queue<T>::free_node(e)
free_node(fr, e) == stack_push(fr, e)

\* push: n->value_ = value throws; the catch block calls free_node(n).
\* emplace: the catch block deletes n.
AssignThrow(p) ==
    /\ pc[p] = "assign"
    /\ IF op[p] = "push"
       THEN /\ free_' = free_node(free_, n[p])
            /\ nodes' = nodes
       ELSE /\ free_' = free_
            /\ nodes' = nodes \ {untag(n[p])}
    /\ lastThrow' = [op |-> op[p], id |-> arg[p]]
    /\ Return(p)
    /\ UNCHANGED <<phase, capacity_, head_, tail_, nalloc, next_, value_>>
    /\ UNCHANGED <<cap0, nextId, enq, deq, pushed, popped, control, lastPop, npop>>
    /\ UNCHANGED <<quiet, stackvars>>
    /\ UNCHANGED <<purevars, hb, seen, stale>>

\* enqueue: tail = tail_;
E_tail(p) ==
    /\ pc[p] = "E_tail"
    /\ tail' = [tail EXCEPT ![p] = tail_]
    /\ pc' = [pc EXCEPT ![p] = "E_next"]
    /\ UNCHANGED <<shared, op, arg, n, next, h, t, value, ghost, stackvars>>
    /\ UNCHANGED <<purevars, hb, seen, stale>>

\* enqueue: next = tail->next_;
E_next(p) ==
    /\ pc[p] = "E_next"
    /\ next' = [next EXCEPT ![p] = next_[untag(tail[p])]]
    /\ pc' = [pc EXCEPT ![p] = "E_check"]
    /\ UNCHANGED <<shared, op, arg, n, tail, h, t, value, ghost, stackvars>>
    /\ UNCHANGED <<purevars, hb, seen, stale>>

\* enqueue: if (tail != tail_) continue;
E_check(p) ==
    /\ pc[p] = "E_check"
    /\ pc' = [pc EXCEPT ![p] = IF tp_eq(tail[p], tail_) THEN "E_cas" ELSE "E_tail"]
    /\ UNCHANGED <<shared, op, arg, n, tail, next, h, t, value, ghost, stackvars>>
    /\ UNCHANGED <<purevars, hb, seen, stale>>

\* The word enqueue links into tail->next_.
LinkWord(nd, nx) == increment_tag(set_tag(nd, nx))

\* A CAS on tail_ that installs the node with the tag of the tail snapshot.
SwingWordSameTag(nd, tl) == set_tag(nd, tl)

\* A CAS on tail_ that installs the tail snapshot again.
SwingWordStuck(nd, tl) == tl

\* The word a CAS on tail_ installs: the node nd behind the tail snapshot tl.
SwingWord(nd, tl) == increment_tag(set_tag(nd, tl))

\* enqueue: if (!next) link the node after tail, else help tail_ along.
E_cas(p) ==
    /\ pc[p] = "E_cas"
    /\ IF untag(next[p]) = Null
       THEN LET cur == next_[untag(tail[p])]
                ok == tp_eq(cur, next[p])
            IN  /\ next_' = [next_ EXCEPT ![untag(tail[p])] =
                        compare_set_strong(cur, next[p], LinkWord(n[p], next[p]))]
                /\ enq' = IF ok THEN Append(enq, arg[p]) ELSE enq
                /\ pc' = [pc EXCEPT ![p] = IF ok THEN "E_swing" ELSE "E_tail"]
                /\ tail_' = tail_
                /\ quiet' = [q \in Procs |-> quiet[q] /\ ~ok]
       ELSE /\ tail_' = compare_set_strong(tail_, tail[p], SwingWord(next[p], tail[p]))
            /\ pc' = [pc EXCEPT ![p] = "E_tail"]
            /\ UNCHANGED <<next_, enq, quiet>>
    /\ UNCHANGED <<phase, capacity_, head_, free_, nodes, nalloc, value_>>
    /\ UNCHANGED <<op, arg, n, tail, next, h, t, value>>
    /\ UNCHANGED <<cap0, nextId, deq, pushed, popped, control, lastPop, npop>>
    /\ UNCHANGED <<lastThrow, stackvars>>
    /\ UNCHANGED <<purevars, hb, seen, stale>>

\* enqueue: the final tail_.compare_set_strong(tail, n...); the call returns.
E_swing(p) ==
    /\ pc[p] = "E_swing"
    /\ tail_' = compare_set_strong(tail_, tail[p], SwingWord(n[p], tail[p]))
    /\ pushed' = pushed \cup {arg[p]}
    /\ control' = Append(control, arg[p])
    /\ Return(p)
    /\ UNCHANGED <<phase, capacity_, head_, free_, nodes, nalloc, next_, value_>>
    /\ UNCHANGED <<cap0, nextId, enq, deq, popped, lastPop, npop>>
    /\ UNCHANGED <<quiet, lastThrow, stackvars>>
    /\ UNCHANGED <<purevars, hb, seen, stale>>

\* ----------------------------------------------------------------------- pop
\* A thread calls optional<T> pop(): T value; dequeue(value).
CallPop(p, lim) ==
    /\ phase = "live"
    /\ pc[p] = "idle"
    /\ npop < lim
    /\ pc' = [pc EXCEPT ![p] = "D_head"]
    /\ op' = [op EXCEPT ![p] = "pop"]
    /\ npop' = npop + 1
    /\ quiet' = [quiet EXCEPT ![p] = NoPayload]
    /\ UNCHANGED <<shared, arg, n, tail, next, h, t, value>>
    /\ UNCHANGED <<cap0, nextId, enq, deq, pushed, popped, control, lastPop>>
    /\ UNCHANGED <<lastThrow, stackvars>>
    /\ seen' = [seen EXCEPT ![p] = pushed]
    /\ UNCHANGED <<purevars, hb, stale>>

\* What the reference list would give a pop now.
Front(l) == IF l = <<>> THEN Empty ELSE Got(Head(l))

\* The reference list after that pop.
PopFront(l) == IF l = <<>> THEN l ELSE Tail(l)

\* dequeue: h = head_;
D_head(p) ==
    /\ pc[p] = "D_head"
    /\ h' = [h EXCEPT ![p] = head_]
    /\ pc' = [pc EXCEPT ![p] = "D_tail"]
    /\ UNCHANGED <<shared, op, arg, n, tail, next, t, value, ghost, stackvars>>
    /\ UNCHANGED <<purevars, hb, seen, stale>>

\* dequeue: t = tail_;
D_tail(p) ==
    /\ pc[p] = "D_tail"
    /\ t' = [t EXCEPT ![p] = tail_]
    /\ pc' = [pc EXCEPT ![p] = "D_next"]
    /\ UNCHANGED <<shared, op, arg, n, tail, next, h, value, ghost, stackvars>>
    /\ UNCHANGED <<purevars, hb, seen, stale>>

\* dequeue: n = h->next_;
D_next(p) ==
    /\ pc[p] = "D_next"
    /\ n' = [n EXCEPT ![p] = next_[untag(h[p])]]
    /\ pc' = [pc EXCEPT ![p] = "D_check"]
    /\ UNCHANGED <<shared, op, arg, tail, next, h, t, value, ghost, stackvars>>
    /\ UNCHANGED <<purevars, hb, seen, stale>>

\* A dequeue that does not test for the empty queue.
DequeueBranchNoEmptyTest(hh, tt, nn, head) ==
    IF ~tp_eq(hh, head) THEN "D_head"
    ELSE IF tp_eq(hh, tt) /\ untag(nn) # Null THEN "D_help" ELSE "D_copy"

\* A dequeue that never helps tail_ along.
DequeueBranchNoHelp(hh, tt, nn, head) ==
    IF ~tp_eq(hh, head) THEN "D_head"
    ELSE IF untag(nn) = Null THEN "empty" ELSE "D_copy"

\* dequeue: where the loop body goes once h, t and n are read:
\* if (h != head_) continue; if (h == t) { if (!n) return false; else help }
DequeueBranch(hh, tt, nn, head) ==
    IF ~tp_eq(hh, head) THEN "D_head"
    ELSE IF tp_eq(hh, tt)
         THEN IF untag(nn) = Null THEN "empty" ELSE "D_help"
         ELSE "D_copy"

\* dequeue: the consistency check and the h == t test; on an empty queue
\* the call returns false.
D_check(p) ==
    /\ pc[p] = "D_check"
    /\ LET to == DequeueBranch(h[p], t[p], n[p], head_)
       IN  IF to = "empty"
           THEN /\ lastPop' = [got |-> Empty, want |-> Front(control)]
                /\ quiet' = [quiet EXCEPT ![p] = FALSE]
                /\ Return(p)
           ELSE /\ pc' = [pc EXCEPT ![p] = to]
                /\ UNCHANGED <<op, arg, n, tail, next, h, t, value, lastPop, quiet>>
    /\ UNCHANGED <<shared, cap0, nextId, enq, deq, pushed, popped, control, npop>>
    /\ UNCHANGED <<lastThrow, stackvars>>
    /\ UNCHANGED <<purevars, hb, seen, stale>>

\* dequeue: tail_.compare_set_strong(t, n.set_tag(t).increment_tag()); continue;
D_help(p) ==
    /\ pc[p] = "D_help"
    /\ tail_' = compare_set_strong(tail_, t[p], SwingWord(n[p], t[p]))
    /\ pc' = [pc EXCEPT ![p] = "D_head"]
    /\ UNCHANGED <<phase, capacity_, head_, free_, nodes, nalloc, next_, value_>>
    /\ UNCHANGED <<op, arg, n, tail, next, h, t, value, ghost, stackvars>>
    /\ UNCHANGED <<purevars, hb, seen, stale>>

\* A dequeue that copies the sentinel's value.
CopyFromHead(hh, nn) == value_[untag(hh)]

\* dequeue: the value copied out, n->value_.
CopyFrom(hh, nn) == value_[untag(nn)]

\* dequeue: assert(n); value = n->value_;
D_copy(p) ==
    /\ pc[p] = "D_copy"
    /\ IF untag(n[p]) = Null
       THEN /\ pc' = [pc EXCEPT ![p] = "abort"]
            /\ value' = value
       ELSE /\ pc' = [pc EXCEPT ![p] = "D_cas"]
            /\ value' = [value EXCEPT ![p] = CopyFrom(h[p], n[p])]
    /\ UNCHANGED <<shared, op, arg, n, tail, next, h, t, ghost, stackvars>>
    /\ UNCHANGED <<purevars, hb, seen, stale>>

\* A dequeue that installs the node with the tag of the head snapshot.
HeadWordSameTag(nn, hh) == set_tag(nn, hh)

\* A head_ whose tag is not reduced modulo MAX_TAG + 1.
HeadWordNoWrap(nn, hh) == TP(untag(nn), get_tag(hh) + 1)

\* The word dequeue installs in head_.
HeadWord(nn, hh) == set_tag(nn, increment_tag(hh))

\* A dequeue that moves head_ before it copies the value out.
CopyThrowHeadMoved(head, hh, nn) == compare_set_strong(head, hh, HeadWord(nn, hh))

\* dequeue: head_ when value = n->value_ throws: the CAS on head_ comes
\* after the copy and is not reached.
CopyThrowHead(head, hh, nn) == head

\* dequeue: value = n->value_ throws; the exception leaves dequeue and pop.
D_copyThrow(p) ==
    /\ pc[p] = "D_copy"
    /\ untag(n[p]) # Null
    /\ head_' = CopyThrowHead(head_, h[p], n[p])
    /\ lastThrow' = [op |-> "pop", id |-> value_[untag(n[p])]]
    /\ quiet' = [quiet EXCEPT ![p] = FALSE]
    /\ Return(p)
    /\ UNCHANGED <<phase, capacity_, tail_, free_, nodes, nalloc, next_, value_>>
    /\ UNCHANGED <<cap0, nextId, enq, deq, pushed, popped, control, lastPop, npop>>
    /\ UNCHANGED stackvars
    /\ UNCHANGED <<purevars, hb, seen, stale>>

\* A dequeue that does not look at what the CAS on head_ returned.
HeadCasIgnored(cur, hh) == TRUE

\* dequeue: what head_.compare_set_strong(h, ...) returns.
HeadCasOk(cur, hh) == tp_eq(cur, hh)

\* dequeue: if (!head_.compare_set_strong(h, n.set_tag(h.increment_tag()))) continue;
D_cas(p) ==
    /\ pc[p] = "D_cas"
    /\ LET ok == HeadCasOk(head_, h[p])
       IN  /\ head_' = compare_set_strong(head_, h[p], HeadWord(n[p], h[p]))
           /\ deq' = IF ok THEN Append(deq, value[p]) ELSE deq
           /\ pc' = [pc EXCEPT ![p] = IF ok THEN "D_free" ELSE "D_head"]
    /\ UNCHANGED <<phase, capacity_, tail_, free_, nodes, nalloc, next_, value_>>
    /\ UNCHANGED <<op, arg, n, tail, next, h, t, value>>
    /\ UNCHANGED <<cap0, nextId, enq, pushed, popped, control, lastPop, npop>>
    /\ UNCHANGED <<quiet, lastThrow, stackvars>>
    /\ UNCHANGED <<purevars, hb, seen, stale>>

\* dequeue: free_node(old); return true;
D_free(p) ==
    /\ pc[p] = "D_free"
    /\ free_' = free_node(free_, h[p])
    /\ popped' = Append(popped, value[p])
    /\ lastPop' = [got |-> Got(value[p]), want |-> Front(control)]
    /\ control' = PopFront(control)
    /\ quiet' = [quiet EXCEPT ![p] = FALSE]
    /\ Return(p)
    /\ UNCHANGED <<phase, capacity_, head_, tail_, nodes, nalloc, next_, value_>>
    /\ UNCHANGED <<cap0, nextId, enq, deq, pushed, npop>>
    /\ UNCHANGED <<lastThrow, stackvars>>
    /\ UNCHANGED <<purevars, hb, seen, stale>>

\* ---------------------------------------------------------- specifications
\* One step of thread p inside a call.
Step(p) ==
    \/ Alloc(p) \/ Assign(p)
    \/ E_tail(p) \/ E_next(p) \/ E_check(p) \/ E_cas(p) \/ E_swing(p)
    \/ D_head(p) \/ D_tail(p) \/ D_next(p) \/ D_check(p) \/ D_help(p)
    \/ D_copy(p) \/ D_cas(p) \/ D_free(p)

\* Threads producers and consumers on one queue, T = foo (no copy throws).
Next ==
    \/ \E c \in 0..MaxCap : Ctor(c)
    \/ \E p \in Procs : CallEmplace(p, MaxPush) \/ CallPop(p, MaxPop) \/ Step(p)

Spec == Init /\ [][Next]_vars

\* A step in which no thread but thread 1 moves.
Solo == \A q \in Procs \ {1} : pc'[q] = pc[q]

\* The threads of Spec where the scheduler, from some point on, runs thread 1
\* alone and keeps running it while it is inside a call; the other threads
\* stay wherever they were stopped.  The threads run the same code, so
\* thread 1 stands for any of them.
SpecSolo == Init /\ [][Next]_vars /\ WF_vars(Step(1)) /\ <>[][Solo]_vars

\* One step of the only thread: tail_ never lags behind a lone thread, so
\* dequeue's helping CAS is never reached (C1_FifoRefinement checks it).
SeqStep(p) ==
    \/ Alloc(p) \/ Assign(p) \/ AssignThrow(p)
    \/ E_tail(p) \/ E_next(p) \/ E_check(p) \/ E_cas(p) \/ E_swing(p)
    \/ D_head(p) \/ D_tail(p) \/ D_next(p) \/ D_check(p)
    \/ D_copy(p) \/ D_copyThrow(p) \/ D_cas(p) \/ D_free(p)

\* One thread on one queue; T's copy and move assignment may throw, and so
\* may new.
NextSeq ==
    \/ \E c \in 0..MaxCap : Ctor(c)
    \/ \E c \in 0..MaxCap, k \in 0..MaxCap, at \in {"node", "push"} : CtorThrow(c, k, at)
    \/ Dtor
    \/ CallPush(1, SeqPush) \/ CallEmplace(1, SeqPush) \/ CallPop(1, SeqPop)
    \/ SeqStep(1)

SpecSeq == Init /\ [][NextSeq]_vars

\* One step of the only thread when no assignment of T throws.
WrapStep(p) ==
    \/ Alloc(p) \/ Assign(p)
    \/ E_tail(p) \/ E_next(p) \/ E_check(p) \/ E_cas(p) \/ E_swing(p)
    \/ D_head(p) \/ D_tail(p) \/ D_next(p) \/ D_check(p)
    \/ D_copy(p) \/ D_cas(p) \/ D_free(p)

\* The program built for i386, where a tag has 2 bits.
InitWrap == InitLf /\ InitTagIdle /\ InitHeapIdle /\ arch = "i386"

\* One thread on one queue, with enough calls for the tags of head_, tail_
\* and the next_ fields to pass MAX_TAG.
NextWrap ==
    \/ \E c \in 0..MaxCap : Ctor(c)
    \/ CallPush(1, WrapPush) \/ CallEmplace(1, WrapPush) \/ CallPop(1, WrapPop)
    \/ WrapStep(1)

SpecWrap == InitWrap /\ [][NextWrap]_vars

\* ------------------------------------------------- mu::lf::stack<T>, whole
\* The stack with its two intrusive impl::stack<node>, stack_ and free_,
\* every read of a head word or of a linked node's next_ and every CAS one
\* step.  Threads use the locals n, h, next (impl::stack::pop's n) and value.

\* A push that does not link the element to the old head.
PushLinkNull(hd) == NullTP

\* impl::stack::push: e->next_ = h;
PushLink(hd) == hd

\* A push that installs the handle as it got it.
StackPushWordSame(e) == e

\* impl::stack::push: the word the CAS installs in head_, e.increment_tag().
StackPushWord(e) == increment_tag(e)

\* impl::stack::pop: the word the CAS installs in head_, n.increment_tag().
StackPopWord(nx) == increment_tag(nx)

\* A CAS on a head word whose result is not looked at.
StackCasIgnored(cur, hh) == TRUE

\* impl::stack: what head_.compare_set_strong(h, ...) returns.
StackCasOk(cur, hh) == tp_eq(cur, hh)

\* The loop of stack<T>::stack: new nodes i+1..count pushed on free_, from
\* the head word and next_ fields in st.
RECURSIVE SProvision(_, _, _)
SProvision(i, count, st) ==
    IF i < count
    THEN SProvision(i + 1, count,
            [head |-> StackPushWord(TP(i + 1, 0)),
             next |-> [st.next EXCEPT ![i + 1] = PushLink(st.head)]])
    ELSE st

\* stack<T>::stack(initial_capacity)
StackCtor(count) ==
    /\ sphase = "new"
    /\ phase = "new"
    /\ LET r == SProvision(0, count, [head |-> sfree_, next |-> snext_])
       IN  /\ sfree_' = r.head
           /\ snext_' = r.next
    /\ snalloc' = count
    /\ snodes' = 1..count
    /\ sphase' = "live"
    /\ cap0' = count
    /\ UNCHANGED <<stack_, svalue_, allocated, shared, locals>>
    /\ UNCHANGED <<nextId, enq, deq, pushed, popped, control, lastPop, npop>>
    /\ UNCHANGED <<quiet, lastThrow>>
    /\ UNCHANGED <<purevars, hb, seen, stale>>

\* A thread calls stack<T>::push(const T&) or emplace(T&&) with a fresh id.
SCall(p, kind, lim) ==
    /\ sphase = "live"
    /\ pc[p] = "idle"
    /\ nextId <= lim
    /\ pc' = [pc EXCEPT ![p] = "FreePop_h"]
    /\ op' = [op EXCEPT ![p] = kind]
    /\ arg' = [arg EXCEPT ![p] = nextId]
    /\ nextId' = nextId + 1
    /\ UNCHANGED <<shared, stackvars, n, tail, next, h, t, value>>
    /\ UNCHANGED <<cap0, enq, deq, pushed, popped, control, lastPop, npop>>
    /\ UNCHANGED <<quiet, lastThrow>>
    /\ UNCHANGED <<purevars, hb, seen, stale>>

SCallPush(p, lim) == SCall(p, "push", lim)

SCallEmplace(p, lim) == SCall(p, "emplace", lim)

\* The locals of a thread whose stack call returned.
SReturn(p) ==
    /\ Return(p)
    /\ allocated' = [allocated EXCEPT ![p] = FALSE]

\* push/emplace, free_.pop(n): h = head_; if (!h) return false;
\* The threads whose snapshot h addresses a node that was popped since: those
\* already marked and, once thread p's CAS of a pop took the node of h[p]
\* off the stack, every other thread between its snapshot and its CAS in
\* region whose h addresses that node.
StaleAfterPop(p, region, ok) ==
    [q \in Procs |-> stale[q] \/ (ok /\ q # p /\ pc[q] \in region
                                   /\ untag(h[q]) = untag(h[p]))]

FreePop_h(p) ==
    /\ pc[p] = "FreePop_h"
    /\ h' = [h EXCEPT ![p] = sfree_]
    /\ pc' = [pc EXCEPT ![p] = IF untag(sfree_) = Null THEN "NewNode" ELSE "FreePop_n"]
    /\ UNCHANGED <<shared, stackvars, op, arg, n, tail, next, t, value, ghost>>
    /\ stale' = [stale EXCEPT ![p] = FALSE]
    /\ UNCHANGED <<purevars, hb, seen>>

\* free_.pop(n): n = h->next_;
FreePop_n(p) ==
    /\ pc[p] = "FreePop_n"
    /\ next' = [next EXCEPT ![p] = snext_[untag(h[p])]]
    /\ pc' = [pc EXCEPT ![p] = "FreePop_cas"]
    /\ UNCHANGED <<shared, stackvars, op, arg, n, tail, h, t, value, ghost>>
    /\ UNCHANGED <<purevars, hb, seen, stale>>

\* free_.pop(n): if (head_.compare_set_strong(h, n.increment_tag())) e = h;
FreePop_cas(p) ==
    /\ pc[p] = "FreePop_cas"
    /\ LET ok == StackCasOk(sfree_, h[p])
       IN  /\ sfree_' = compare_set_strong(sfree_, h[p], StackPopWord(next[p]))
           /\ n' = [n EXCEPT ![p] = IF ok THEN h[p] ELSE n[p]]
           /\ pc' = [pc EXCEPT ![p] = IF ok THEN "SetValue" ELSE "FreePop_h"]
    /\ UNCHANGED <<sphase, stack_, snext_, svalue_, snodes, snalloc, allocated>>
    /\ UNCHANGED <<shared, op, arg, tail, next, h, t, value, ghost>>
    /\ stale' = StaleAfterPop(p, {"FreePop_n", "FreePop_cas"}, StackCasOk(sfree_, h[p]))
    /\ UNCHANGED <<purevars, hb, seen>>

\* push/emplace with free_ empty: n = new node(v); emplace sets allocated.
NewNode(p) ==
    /\ pc[p] = "NewNode"
    /\ n' = [n EXCEPT ![p] = TP(snalloc + 1, 0)]
    /\ snalloc' = snalloc + 1
    /\ snodes' = snodes \cup {snalloc + 1}
    /\ snext_' = [snext_ EXCEPT ![snalloc + 1] = NullTP]
    /\ svalue_' = [svalue_ EXCEPT ![snalloc + 1] = arg[p]]
    /\ allocated' = [allocated EXCEPT ![p] = op[p] = "emplace"]
    /\ pc' = [pc EXCEPT ![p] = "SetValue"]
    /\ UNCHANGED <<sphase, stack_, sfree_>>
    /\ UNCHANGED <<shared, op, arg, tail, next, h, t, value, ghost>>
    /\ UNCHANGED <<purevars, hb, seen, stale>>

\* push/emplace: n->value_ = v;
SetValue(p) ==
    /\ pc[p] = "SetValue"
    /\ svalue_' = [svalue_ EXCEPT ![untag(n[p])] = arg[p]]
    /\ pc' = [pc EXCEPT ![p] = "Push_h"]
    /\ UNCHANGED <<sphase, stack_, sfree_, snext_, snodes, snalloc, allocated>>
    /\ UNCHANGED <<shared, op, arg, n, tail, next, h, t, value, ghost>>
    /\ UNCHANGED <<purevars, hb, seen, stale>>

\* stack_.push(n): h = head_; e->next_ = h;
Push_h(p) ==
    /\ pc[p] = "Push_h"
    /\ h' = [h EXCEPT ![p] = stack_]
    /\ snext_' = [snext_ EXCEPT ![untag(n[p])] = PushLink(stack_)]
    /\ pc' = [pc EXCEPT ![p] = "Push_cas"]
    /\ UNCHANGED <<sphase, stack_, sfree_, svalue_, snodes, snalloc, allocated>>
    /\ UNCHANGED <<shared, op, arg, n, tail, next, t, value, ghost>>
    /\ UNCHANGED <<purevars, hb, seen, stale>>

\* stack_.push(n): if (head_.compare_set_strong(h, e.increment_tag())) break;
\* and the call returns.
Push_cas(p) ==
    /\ pc[p] = "Push_cas"
    /\ stack_' = compare_set_strong(stack_, h[p], StackPushWord(n[p]))
    /\ IF StackCasOk(stack_, h[p])
       THEN /\ enq' = Append(enq, arg[p])
            /\ pushed' = pushed \cup {arg[p]}
            /\ control' = <<arg[p]>> \o control
            /\ SReturn(p)
       ELSE /\ pc' = [pc EXCEPT ![p] = "Push_h"]
            /\ UNCHANGED <<enq, pushed, control, allocated>>
            /\ UNCHANGED <<op, arg, n, tail, next, h, t, value>>
    /\ UNCHANGED <<sphase, sfree_, snext_, svalue_, snodes, snalloc, shared>>
    /\ UNCHANGED <<cap0, nextId, deq, popped, lastPop, npop, quiet, lastThrow>>
    /\ UNCHANGED <<purevars, hb, seen, stale>>

\* A thread calls stack<T>::pop.
SCallPop(p, lim) ==
    /\ sphase = "live"
    /\ pc[p] = "idle"
    /\ npop < lim
    /\ pc' = [pc EXCEPT ![p] = "Pop_h"]
    /\ op' = [op EXCEPT ![p] = "pop"]
    /\ npop' = npop + 1
    /\ UNCHANGED <<shared, stackvars, arg, n, tail, next, h, t, value>>
    /\ UNCHANGED <<cap0, nextId, enq, deq, pushed, popped, control, lastPop>>
    /\ UNCHANGED <<quiet, lastThrow>>
    /\ UNCHANGED <<purevars, hb, seen, stale>>

\* stack_.pop(n): h = head_; if (!h) return false; and pop returns empty.
Pop_h(p) ==
    /\ pc[p] = "Pop_h"
    /\ IF untag(stack_) = Null
       THEN /\ lastPop' = [got |-> Empty, want |-> Front(control)]
            /\ SReturn(p)
       ELSE /\ h' = [h EXCEPT ![p] = stack_]
            /\ pc' = [pc EXCEPT ![p] = "Pop_n"]
            /\ UNCHANGED <<op, arg, n, tail, next, t, value, lastPop, allocated>>
    /\ UNCHANGED <<sphase, stack_, sfree_, snext_, svalue_, snodes, snalloc, shared>>
    /\ UNCHANGED <<cap0, nextId, enq, deq, pushed, popped, control, npop>>
    /\ UNCHANGED <<quiet, lastThrow>>
    /\ stale' = [stale EXCEPT ![p] = FALSE]
    /\ UNCHANGED <<purevars, hb, seen>>

\* stack_.pop(n): n = h->next_;
Pop_n(p) ==
    /\ pc[p] = "Pop_n"
    /\ next' = [next EXCEPT ![p] = snext_[untag(h[p])]]
    /\ pc' = [pc EXCEPT ![p] = "Pop_cas"]
    /\ UNCHANGED <<shared, stackvars, op, arg, n, tail, h, t, value, ghost>>
    /\ UNCHANGED <<purevars, hb, seen, stale>>

\* stack_.pop(n): if (head_.compare_set_strong(h, n.increment_tag())) e = h;
Pop_cas(p) ==
    /\ pc[p] = "Pop_cas"
    /\ LET ok == StackCasOk(stack_, h[p])
       IN  /\ stack_' = compare_set_strong(stack_, h[p], StackPopWord(next[p]))
           /\ n' = [n EXCEPT ![p] = IF ok THEN h[p] ELSE n[p]]
           /\ deq' = IF ok THEN Append(deq, svalue_[untag(h[p])]) ELSE deq
           /\ pc' = [pc EXCEPT ![p] = IF ok THEN "Pop_out" ELSE "Pop_h"]
    /\ UNCHANGED <<sphase, sfree_, snext_, svalue_, snodes, snalloc, allocated>>
    /\ UNCHANGED <<shared, op, arg, tail, next, h, t, value>>
    /\ UNCHANGED <<cap0, nextId, enq, pushed, popped, control, lastPop, npop>>
    /\ UNCHANGED <<quiet, lastThrow>>
    /\ stale' = StaleAfterPop(p, {"Pop_n", "Pop_cas"}, StackCasOk(stack_, h[p]))
    /\ UNCHANGED <<purevars, hb, seen>>

\* pop: out = n->value_; n->value_ = T(); return true.
Pop_out(p) ==
    /\ pc[p] = "Pop_out"
    /\ svalue_' = [svalue_ EXCEPT ![untag(n[p])] = NoVal]
    /\ popped' = Append(popped, svalue_[untag(n[p])])
    /\ lastPop' = [got |-> Got(svalue_[untag(n[p])]), want |-> Front(control)]
    /\ control' = PopFront(control)
    /\ SReturn(p)
    /\ UNCHANGED <<sphase, stack_, sfree_, snext_, snodes, snalloc, shared>>
    /\ UNCHANGED <<cap0, nextId, enq, deq, pushed, npop, quiet, lastThrow>>
    /\ UNCHANGED <<purevars, hb, seen, stale>>

\* One step of thread p inside a stack call.
SStep(p) ==
    \/ FreePop_h(p) \/ FreePop_n(p) \/ FreePop_cas(p) \/ NewNode(p)
    \/ SetValue(p) \/ Push_h(p) \/ Push_cas(p)
    \/ Pop_h(p) \/ Pop_n(p) \/ Pop_cas(p) \/ Pop_out(p)

\* Threads producers and consumers on one stack, T = foo.
NextStack ==
    \/ \E c \in 0..MaxCap : StackCtor(c)
    \/ \E p \in Procs : SCallEmplace(p, MaxPush) \/ SCallPop(p, MaxPop) \/ SStep(p)

SpecStack == Init /\ [][NextStack]_vars

\* One thread on one stack.
NextStackSeq ==
    \/ \E c \in 0..MaxCap : StackCtor(c)
    \/ SCallPush(1, SeqPush) \/ SCallEmplace(1, SeqPush) \/ SCallPop(1, SeqPop)
    \/ SStep(1)

SpecStackSeq == Init /\ [][NextStackSeq]_vars

\* ------------------------------------------- mu::lf::stack<T>, T may throw
\* push: n->value_ = v throws and the exception leaves push with the node n
\* in neither stack.  emplace: n->value_ = std::move(v) throws inside the try
\* block; the catch block deletes a node it allocated, or pushes a node it
\* took from free_ back on free_, and emplace then returns normally.
SetValueThrow(p) ==
    /\ pc[p] = "SetValue"
    /\ IF op[p] = "push"
       THEN /\ lastThrow' = [op |-> "push", id |-> arg[p]]
            /\ SReturn(p)
            /\ snodes' = snodes
       ELSE IF allocated[p]
       THEN /\ snodes' = snodes \ {untag(n[p])}
            /\ SReturn(p)
            /\ lastThrow' = lastThrow
       ELSE /\ pc' = [pc EXCEPT ![p] = "FreePush_h"]
            /\ UNCHANGED <<op, arg, n, tail, next, h, t, value>>
            /\ UNCHANGED <<snodes, allocated, lastThrow>>
    /\ UNCHANGED <<sphase, stack_, sfree_, snext_, svalue_, snalloc, shared>>
    /\ UNCHANGED <<cap0, nextId, enq, deq, pushed, popped, control, lastPop, npop>>
    /\ UNCHANGED <<quiet, purevars, hb, seen, stale>>

\* emplace's catch block, free_.push(n): h = head_; e->next_ = h;
FreePush_h(p) ==
    /\ pc[p] = "FreePush_h"
    /\ h' = [h EXCEPT ![p] = sfree_]
    /\ snext_' = [snext_ EXCEPT ![untag(n[p])] = PushLink(sfree_)]
    /\ pc' = [pc EXCEPT ![p] = "FreePush_cas"]
    /\ UNCHANGED <<sphase, stack_, sfree_, svalue_, snodes, snalloc, allocated>>
    /\ UNCHANGED <<shared, op, arg, n, tail, next, t, value, ghost>>
    /\ UNCHANGED <<purevars, hb, seen, stale>>

\* free_.push(n): if (head_.compare_set_strong(h, e.increment_tag())) break;
\* and emplace returns.
FreePush_cas(p) ==
    /\ pc[p] = "FreePush_cas"
    /\ sfree_' = compare_set_strong(sfree_, h[p], StackPushWord(n[p]))
    /\ IF StackCasOk(sfree_, h[p])
       THEN SReturn(p)
       ELSE /\ pc' = [pc EXCEPT ![p] = "FreePush_h"]
            /\ UNCHANGED <<op, arg, n, tail, next, h, t, value, allocated>>
    /\ UNCHANGED <<sphase, stack_, snext_, svalue_, snodes, snalloc, shared>>
    /\ UNCHANGED <<ghost, purevars, hb, seen, stale>>

\* pop: the move of n->value_ out of the node throws, after stack_.pop(n)
\* took the node off stack_; the exception leaves pop.
Pop_outThrow(p) ==
    /\ pc[p] = "Pop_out"
    /\ lastThrow' = [op |-> "pop", id |-> svalue_[untag(n[p])]]
    /\ SReturn(p)
    /\ UNCHANGED <<sphase, stack_, sfree_, snext_, svalue_, snodes, snalloc, shared>>
    /\ UNCHANGED <<cap0, nextId, enq, deq, pushed, popped, control, lastPop, npop>>
    /\ UNCHANGED <<quiet, purevars, hb, seen, stale>>

\* One step of thread p inside a stack call when T's assignments may throw.
SThrowStep(p) ==
    \/ SStep(p)
    \/ SetValueThrow(p) \/ FreePush_h(p) \/ FreePush_cas(p) \/ Pop_outThrow(p)

\* Threads on one stack whose T may throw when assigned.
NextStackThrow ==
    \/ \E c \in 0..MaxCap : StackCtor(c)
    \/ \E p \in Procs : SCallPush(p, MaxPush) \/ SCallEmplace(p, MaxPush)
                           \/ SCallPop(p, MaxPop) \/ SThrowStep(p)

SpecStackThrow == Init /\ [][NextStackThrow]_vars

\* ----------------------------------------------- tagged_ptr<T> on its own
\* The tags and the size_t tag arguments the operations are applied to: the
\* smallest, the largest, and arguments past MAX_TAG.
TagVals == (0..TagSpan) \cup ((MAX_TAG - TagSpan)..MAX_TAG)
TagArgs == TagVals \cup ((MAX_TAG + 1)..(MAX_TAG + 1 + TagSpan))
TagWords == {TP(a, g) : a \in 0..TagAddrs, g \in TagVals}

\* A tagged pointer and the arguments of one operation on it.
InitTag ==
    /\ InitLf
    /\ InitHeapIdle
    /\ ptr_ \in TagWords
    /\ targ \in [o : TagWords, d : TagWords, t : TagArgs]
    /\ tres = NoOp
    /\ arch = "x86_64"

\* arch::tag(ptr_, t)
ArchTag ==
    /\ tres = NoOp
    /\ tres' = [op |-> "tag", was |-> ptr_, word |-> arch_tag(ptr_, targ.t), ok |-> FALSE]
    /\ UNCHANGED <<ptr_, targ, lfvars, heapvars, arch>>

\* ptr_.set_tag(o)
SetTag ==
    /\ tres = NoOp
    /\ tres' = [op |-> "set_tag", was |-> ptr_, word |-> set_tag(ptr_, targ.o), ok |-> FALSE]
    /\ UNCHANGED <<ptr_, targ, lfvars, heapvars, arch>>

\* ptr_.increment_tag()
IncrementTag ==
    /\ tres = NoOp
    /\ tres' = [op |-> "increment_tag", was |-> ptr_, word |-> increment_tag(ptr_), ok |-> FALSE]
    /\ UNCHANGED <<ptr_, targ, lfvars, heapvars, arch>>

\* ptr_.compare_set_strong(o, d)
CompareSetStrong ==
    /\ tres = NoOp
    /\ ptr_' = compare_set_strong(ptr_, targ.o, targ.d)
    /\ tres' = [op |-> "compare_set_strong", was |-> ptr_, word |-> targ.d,
                ok |-> tp_eq(ptr_, targ.o)]
    /\ UNCHANGED <<targ, lfvars, heapvars, arch>>

\* ptr_ == o
Equals ==
    /\ tres = NoOp
    /\ tres' = [op |-> "==", was |-> ptr_, word |-> targ.o, ok |-> tp_eq(ptr_, targ.o)]
    /\ UNCHANGED <<ptr_, targ, lfvars, heapvars, arch>>

NextTag == ArchTag \/ SetTag \/ IncrementTag \/ CompareSetStrong \/ Equals

SpecTag == InitTag /\ [][NextTag]_vars

\* ------------------------------------------------ mu::adt::heap<element>
\* The deque a, indexed from 0 as in the code.
At(a, i) == a[i + 1]

\* std::swap(a[i], a[j])
Swap(a, i, j) == [a EXCEPT ![i + 1] = a[j + 1], ![j + 1] = a[i + 1]]

left_child_index(i) == (2 * i) + 1
right_child_index(i) == (2 * i) + 2

\* impl::parent_index, called with i >= 1 only: the loop tests i > 0 first.
parent_index(i) == (i - 1) \div 2

\* bubble_last: while (i > 0 && a[i] < a[p]) { swap(a[i], a[p]); i = p; ... }
RECURSIVE bubble_loop(_, _)
bubble_loop(a, i) ==
    IF i > 0 /\ At(a, i) < At(a, parent_index(i))
    THEN bubble_loop(Swap(a, i, parent_index(i)), parent_index(i))
    ELSE a

\* heap::bubble_last(a)
bubble_last(a) ==
    IF a = <<>> THEN a
    ELSE IF Len(a) - 1 < 1 THEN a
    ELSE bubble_loop(a, Len(a) - 1)

\* A sift that always goes to the left child.
sift_child_left(a, l, r) == l

\* sift_first: the child the element is swapped with when both exist.
sift_child(a, l, r) == IF At(a, l) < At(a, r) THEN l ELSE r

\* sift_first: the while (true) loop from index i.
RECURSIVE sift_loop(_, _)
sift_loop(a, i) ==
    LET l == left_child_index(i)
        r == right_child_index(i)
    IN  IF l >= Len(a) THEN a
        ELSE IF r >= Len(a)
             THEN IF At(a, l) < At(a, i) THEN Swap(a, l, i) ELSE a
        ELSE IF At(a, i) < At(a, l) /\ At(a, i) < At(a, r) THEN a
        ELSE LET c == sift_child(a, l, r)
             IN  sift_loop(Swap(a, c, i), c)

\* heap::sift_first(a)
sift_first(a) == IF a = <<>> THEN a ELSE sift_loop(a, 0)

\* heap::push(a, e): a.push_back(e); bubble_last(a);
heap_push(a, e) == bubble_last(Append(a, e))

\* heap::pop(a) on a non-empty a.
heap_pop(a) ==
    IF Len(a) = 1 THEN <<>>
    ELSE sift_first(SubSeq(Swap(a, 0, Len(a) - 1), 1, Len(a) - 1))

\* heap::top(a) on a non-empty a.
heap_top(a) == At(a, 0)

\* test(es, expected_order) is given any es of at most MaxHeap elements.
InitHeap ==
    /\ InitLf
    /\ InitTagIdle
    /\ es \in UNION {[1..k -> 0..MaxElem] : k \in 0..MaxHeap}
    /\ es0 = es
    /\ heap_ = <<>>
    /\ order = <<>>
    /\ arch = "x86_64"

\* test: for (const auto& e : es) h.push(e);
HeapPush ==
    /\ es # <<>>
    /\ heap_' = heap_push(heap_, Head(es))
    /\ es' = Tail(es)
    /\ UNCHANGED <<es0, order, lfvars, tagvars, arch>>

\* test: h.top() and h.pop() once every element is pushed.
HeapPop ==
    /\ es = <<>>
    /\ heap_ # <<>>
    /\ order' = Append(order, heap_top(heap_))
    /\ heap_' = heap_pop(heap_)
    /\ UNCHANGED <<es, es0, lfvars, tagvars, arch>>

NextHeap == HeapPush \/ HeapPop

SpecHeap == InitHeap /\ [][NextHeap]_vars

\* ------------------------------------------------------------ observations
Range(f) == {f[i] : i \in DOMAIN f}

NoRepeat(f) == \A i, j \in DOMAIN f : f[i] = f[j] => i = j

\* The ids held by the payload nodes, oldest first.
Payload == [i \in 1..(Len(Chain) - 1) |-> value_[Chain[i + 1]]]

Live == phase = "live"

IsPrefix(a, b) == Len(a) <= Len(b) /\ \A i \in DOMAIN a : a[i] = b[i]

\* The stack addresses met following node::next_ from address a.
RECURSIVE SWalk(_, _)
SWalk(a, fuel) ==
    IF a = Null \/ fuel = 0 THEN <<>>
    ELSE <<a>> \o SWalk(untag(snext_[a]), fuel - 1)

\* The nodes on stack_, top first, and the ids they hold.
SChain == SWalk(untag(stack_), MaxNodes + 1)

SPayload == [i \in 1..Len(SChain) |-> svalue_[SChain[i]]]

\* stack<T>::empty()
sempty == untag(stack_) = Null

\* The nodes on free_, top first.
SFreeChain == SWalk(untag(sfree_), MaxNodes + 1)

\* ------------------------------------------------------------------ claims
\* C1: on a queue used by one thread, every pop returns what a reference
\* FIFO list fed the same pushes and pops returns at that point: the oldest
\* id not yet popped, or empty when the list is empty; and every pop gets
\* that far (it neither stops at the helping step nor at assert(n)).
C1_FifoRefinement ==
    /\ lastPop.got = lastPop.want
    /\ \A p \in Procs : pc[p] \notin {"D_help", "abort"}

\* C1: three pops returned ids, and more ids were linked than nodes were
\* ever allocated, so nodes went through the free list.
C1_Witness == lastPop.got.ok /\ Len(popped) >= 3 /\ Len(enq) > nalloc

\* C2: every id whose push/emplace returned is held by a payload node of
\* the chain from head_ or was taken by a successful pop.
C2_NoValueLost ==
    Live => \A v \in pushed : v \in Range(Payload) \/ v \in Range(deq)

\* C3: every id a successful pop took or returned was linked by an enqueue
\* before, and no id is taken or returned twice.
C3_NoDuplicationNoInvention ==
    /\ NoRepeat(deq) /\ Range(deq) \subseteq Range(enq)
    /\ NoRepeat(popped) /\ Range(popped) \subseteq Range(enq)

\* C3: a pop copied out an id that another pop has returned already and is
\* about to try its CAS on head_.
C3_Witness ==
    \E p \in Procs : /\ pc[p] = "D_cas"
                     /\ value[p] \in Range(popped)
                     /\ ~tp_eq(h[p], head_)

\* C4: the ids in the order of the successful CAS on head_ are a prefix of
\* the ids in the order of the successful CAS on a next_ field.
C4_FifoLinearizable == IsPrefix(deq, enq)

\* C5: tail_ addresses the last node of the chain from head_ or the node
\* before the last.
C5_TailLagAtMostOne ==
    Live => \/ untag(tail_) = Chain[Len(Chain)]
            \/ Len(Chain) >= 2 /\ untag(tail_) = Chain[Len(Chain) - 1]

\* C6: head_ is not null, and following next_ from head_ meets no node
\* twice and ends at the null address.
C6_HeadChainAcyclic ==
    Live => /\ untag(head_) # Null
            /\ Len(Chain) <= MaxNodes
            /\ NoRepeat(Chain)

\* C6: after a pop, a chain of three nodes.
C6_Witness == Live /\ Len(deq) >= 1 /\ Len(Chain) >= 3

\* C7: the node tail_ addresses is on the chain from head_.
C7_TailReachableFromHead == Live => untag(tail_) \in Range(Chain)

\* C7: after a pop, head_ has caught up with a tail_ that lags behind the
\* last node.
C7_Witness ==
    /\ Live /\ Len(deq) >= 1
    /\ untag(head_) = untag(tail_)
    /\ Len(Chain) >= 2

\* C8: capacity() never decreases, and whenever no call is in progress it
\* is the number of handles on the free list plus the number of nodes on
\* the chain from head_, also after push/emplace calls whose copy threw.
C8_CapacityAccounting ==
    [][/\ capacity_' >= capacity_
       /\ (Live /\ Quiescent)' => capacity_' = Len(free_') + Len(Chain')]_vars

\* The nodes the constructor allocates for initial capacity c.
CtorAllocs(c) == alloc_node(Provision(0, c, <<>>), c).nalloc

Max(a, b) == IF a >= b THEN a ELSE b

\* C9: after k >= 1 pushes that all returned, with no pop and no throw, on
\* a queue built with initial capacity C: the pushes allocated no node if
\* k <= C and k - C nodes otherwise, and capacity() is max(C, k).
C9_GrowthPerExcess ==
    LET k == nextId - 1
    IN  (Live /\ Quiescent /\ npop = 0 /\ k >= 1 /\ Cardinality(pushed) = k)
        => /\ nalloc - CtorAllocs(cap0) = IF k <= cap0 THEN 0 ELSE k - cap0
           /\ capacity_ = Max(cap0, k)

\* C10: right after queue(N): N handles on the free list, the sentinel one
\* more node that is not on it, head_ and tail_ both the sentinel, and the
\* sentinel's next_ null.
C10_ConstructionLayout ==
    (Live /\ Quiescent /\ nextId = 1 /\ npop = 0)
    => /\ Len(free_) = cap0
       /\ untag(head_) # Null
       /\ untag(head_) \notin {untag(free_[i]) : i \in DOMAIN free_}
       /\ nodes = {untag(free_[i]) : i \in DOMAIN free_} \cup {untag(head_)}
       /\ tp_eq(head_, tail_)
       /\ untag(next_[untag(head_)]) = Null

\* C11: once the destructor ran, no node the queue allocated is still
\* allocated.
C11_DestroyReleasesAll == phase = "dead" => nodes = {}

\* C12: a step of a pop during which the chain from head_ has held no
\* payload node leaves capacity(), head_, tail_, the free list, every next_
\* and the set of nodes as they were, goes straight through the three reads
\* and the checks, and returns empty when it returns.
C12_EmptyPopObserves ==
    [][\A p \in Procs :
        /\ quiet'[p] => NoPayload'
        /\ (quiet[p] /\ pc'[p] # pc[p]) =>
              /\ <<capacity_, head_, tail_, free_, next_, nodes>>'
                    = <<capacity_, head_, tail_, free_, next_, nodes>>
              /\ pc'[p] \in {"D_tail", "D_next", "D_check", "idle"}
              /\ pc'[p] = "idle" => ~lastPop'.got.ok /\ value[p] = NoVal]_vars

\* C12: after an earlier pop took a value, a pop that began on the drained
\* queue has read h, t and n and is at its checks.
C12_Witness ==
    \E p \in Procs : quiet[p] /\ pc[p] = "D_check" /\ Len(deq) >= 1

\* C13: when dequeue returns false, the T& it was given still holds what it
\* held when the call began (an empty T).
C13_FalseLeavesOut ==
    [][\A p \in Procs :
        (pc[p] = "D_check" /\ pc'[p] = "idle") => value[p] = NoVal]_vars

\* C14: in a push(const T&) whose copy throws, neither alloc_node nor the
\* catch block changes head_, tail_, the chain from head_ or the ids it
\* holds; the exception reaches the caller with the node on top of the free
\* list and no node deleted.
C14_PushStrongSafety ==
    [][\A p \in Procs :
        (op[p] = "push" /\ pc[p] \in {"alloc", "assign"}
                        /\ pc'[p] \in {"assign", "idle"}) =>
          /\ head_' = head_ /\ tail_' = tail_
          /\ Chain' = Chain /\ Payload' = Payload
          /\ pc'[p] = "idle" =>
                /\ lastThrow' = [op |-> "push", id |-> arg[p]]
                /\ free_' # <<>> /\ tp_eq(free_'[1], n[p])
                /\ nodes' = nodes /\ pushed' = pushed]_vars

\* C14: the last call was a push whose copy threw, on a queue holding a
\* value, its node back on the free list.
C14_Witness ==
    /\ Quiescent /\ lastThrow = [op |-> "push", id |-> nextId - 1]
    /\ Len(Chain) >= 2 /\ free_ # <<>>

\* C15: when the move in emplace(T&&) throws, the exception reaches the
\* caller with the node on top of the free list and no node deleted.
C15_EmplaceReturnsNode ==
    [][\A p \in Procs :
        (op[p] = "emplace" /\ pc[p] = "assign" /\ pc'[p] = "idle") =>
          /\ free_' # <<>> /\ tp_eq(free_'[1], n[p])
          /\ nodes' = nodes]_vars

\* C16: when the copy in dequeue throws, the exception leaves the call with
\* capacity(), head_, tail_, the free list and every node as they were, the
\* first payload node still holding the id the reference list has in front;
\* and the next pop that returns a value returns that id.
C16_CopyOutFailure ==
    [][\A p \in Procs :
        /\ (pc[p] = "D_copy" /\ pc'[p] = "idle") =>
              /\ <<capacity_, head_, tail_, free_, next_, value_, nodes>>'
                    = <<capacity_, head_, tail_, free_, next_, value_, nodes>>
              /\ Len(Chain') >= 2
              /\ lastThrow' = [op |-> "pop", id |-> Payload'[1]]
              /\ Front(control') = Got(Payload'[1])
        /\ (pc[p] = "D_free" /\ pc'[p] = "idle" /\ lastThrow.op = "pop"
                             /\ lastThrow.id \notin Range(popped)) =>
              value[p] = lastThrow.id]_vars

\* C16: a pop threw while copying an id out, and the last pop that returned
\* a value returned that id.
C16_Witness ==
    /\ Quiescent /\ lastThrow.op = "pop"
    /\ popped # <<>> /\ popped[Len(popped)] = lastThrow.id

\* C17: when the constructor fails, the exception reaches the caller and no
\* node it allocated is still allocated.
C17_CtorFailureCompensated ==
    phase = "failed" => nodes = {} /\ lastThrow.op = "queue"

\* C18: whenever no call is in progress, empty() is true exactly when as
\* many pops returned a value as pushes returned.
C18_QuiescentEmpty ==
    (Live /\ Quiescent) => (empty <=> Cardinality(pushed) = Len(popped))

C21_NodesRecycled ==
    (sphase = "live" /\ Quiescent) => Len(SFreeChain) + Len(SChain) = snalloc

\* C22: when the move in stack emplace throws, the exception reaches the
\* caller, stack_ is as it was and a node taken from free_ is back on it.
C22_EmplaceReportsFailure ==
    [][\A p \in Procs :
        (op[p] = "emplace" /\ pc[p] \in {"SetValue", "FreePush_cas"}
                           /\ pc'[p] = "idle") =>
          /\ lastThrow' = [op |-> "emplace", id |-> arg[p]]
          /\ stack_' = stack_
          /\ (~allocated[p] => untag(sfree_') = untag(n[p]))]_vars

\* C23: when the move out of the node in pop throws, the value is still on
\* top of stack_.
C23_PopStrongSafety ==
    [][\A p \in Procs :
        (pc[p] = "Pop_out" /\ pc'[p] = "idle" /\ lastThrow' # lastThrow) =>
          /\ Len(SChain') >= 1
          /\ SPayload'[1] = lastThrow'.id]_vars

\* C24: once a thread runs alone, the call it is in returns.
C24_ObstructionFree == []<>(pc[1] = "idle")

\* C24: thread 2 stopped between linking its node and swinging tail_, and
\* thread 1, inside enqueue, found tail_ lagging and has to help first.
C24_Witness ==
    pc[2] = "E_swing" /\ pc[1] = "E_cas" /\ untag(next[1]) # Null

C26_CompareSetWholeWord ==
    LET same == tres.was.a = targ.o.a /\ tres.was.g = targ.o.g
    IN  /\ tres.op = "compare_set_strong" =>
              /\ tres.ok <=> same
              /\ tres.ok => ptr_ = targ.d
              /\ ~tres.ok => ptr_ = tres.was
        /\ tres.op = "==" => (tres.ok <=> same)

\* C26: a compare_set_strong whose expected had the stored address, another
\* tag, and a desired that differs from the stored word.
C26_Witness ==
    /\ tres.op = "compare_set_strong"
    /\ tres.was.a = targ.o.a /\ tres.was.g # targ.o.g
    /\ targ.d # tres.was

\* How many times v occurs in the sequence f.
Count(f, v) == Cardinality({i \in DOMAIN f : f[i] = v})

\* C27: after every push and every pop no element of heap_ is greater than
\* its children at 2i+1 and 2i+2; the values top() returned are in
\* non-decreasing order and, with the elements still in heap_ or not yet
\* pushed, are exactly the elements given.
C27_MinHeapOrder ==
    /\ \A i \in 0..(Len(heap_) - 1) :
          /\ 2 * i + 1 < Len(heap_) => At(heap_, i) <= At(heap_, 2 * i + 1)
          /\ 2 * i + 2 < Len(heap_) => At(heap_, i) <= At(heap_, 2 * i + 2)
    /\ \A i, j \in DOMAIN order : i < j => order[i] <= order[j]
    /\ \A v \in 0..MaxElem :
          Count(order, v) + Count(heap_, v) + Count(es, v) = Count(es0, v)

\* C27: at least five elements, given in another order than the sorted one,
\* were pushed and all popped again.
C27_Witness ==
    /\ es = <<>> /\ heap_ = <<>>
    /\ Len(order) >= 5 /\ order # es0

\* C28: an id leaves the queue only after every id whose push had returned
\* when its own push was called; and a pop does not return empty while an id
\* whose push had returned when the pop was called is still not dequeued.
C28_RealTimeOrder ==
    [][/\ \A i \in DOMAIN deq' :
             deq'[i] \in Ids => hb'[deq'[i]] \subseteq {deq'[j] : j \in 1..(i - 1)}
       /\ \A p \in Procs :
             (op[p] = "pop" /\ pc[p] = "D_check" /\ pc'[p] = "idle") =>
                 seen[p] \subseteq Range(deq)]_vars

\* C29: the CAS of an impl::stack pop succeeds only when the node of its
\* snapshot h was not popped since the snapshot (pushed again or not), and it
\* installs the address that node's next_ holds at the moment of the CAS;
\* on free_ and on stack_ alike.
C29_AbaDefence ==
    [][\A p \in Procs :
        /\ (pc[p] = "FreePop_cas" /\ pc'[p] = "SetValue") =>
              /\ ~stale[p]
              /\ untag(sfree_) = untag(h[p])
              /\ untag(sfree_') = untag(snext_[untag(sfree_)])
        /\ (pc[p] = "Pop_cas" /\ pc'[p] = "Pop_out") =>
              /\ ~stale[p]
              /\ untag(stack_) = untag(h[p])
              /\ untag(stack_') = untag(snext_[untag(stack_)])]_vars

\* C29: a thread about to try the CAS of a pop on free_ whose snapshot node
\* was popped by another thread and is the head of free_ again.
C29_Witness ==
    \E p \in Procs : /\ pc[p] = "FreePop_cas" /\ stale[p]
                     /\ untag(sfree_) = untag(h[p])

\* C30: every successful CAS on the head word of free_ or of stack_ installs
\* a word whose tag is the tag of the word it replaces plus one, modulo
\* MAX_TAG + 1.
C30_HeadVersionCounter ==
    [][sphase = "live" =>
        /\ sfree_' # sfree_ =>
              get_tag(sfree_') = (get_tag(sfree_) + 1) % (MAX_TAG + 1)
        /\ stack_' # stack_ =>
              get_tag(stack_') = (get_tag(stack_) + 1) % (MAX_TAG + 1)]_vars

\* C31: whenever the next_ word of a node changes, its tag is the old tag
\* plus one, modulo MAX_TAG + 1; the tag is never reset.
C31_NextTagVersion ==
    [][\A a \in Addrs :
        next_'[a] # next_[a] =>
            get_tag(next_'[a]) = (get_tag(next_[a]) + 1) % (MAX_TAG + 1)]_vars

\* C32: whenever tail_ changes on a live queue, its new address is the one
\* the old tail node's next_ holds at that moment, its tag is the old tag
\* plus one, and the node is on the chain from head_.
C32_TailForwardOneLink ==
    [][(phase = "live" /\ tail_' # tail_) =>
        /\ untag(tail_') = untag(next_[untag(tail_)])
        /\ get_tag(tail_') = (get_tag(tail_) + 1) % (MAX_TAG + 1)
        /\ untag(tail_') \in Range(Chain')]_vars

\* C32: a thread linked its node and, before its own CAS on tail_, another
\* thread's helping CAS moved tail_ to that node.
C32_Witness ==
    \E p \in Procs : /\ pc[p] = "E_swing"
                     /\ ~tp_eq(tail[p], tail_)
                     /\ untag(tail_) = untag(n[p])

\* C33: whenever no call is in progress on a live queue, the next_ of the
\* node tail_ addresses holds the null address.
C33_QuiescentTailIsLast ==
    (Live /\ Quiescent) => untag(next_[untag(tail_)]) = Null

\* C34: on the i386 build, one thread: every pop returns what the reference
\* list returns at that point (the oldest id, or empty when drained), no
\* call stops at assert(n), and between calls empty() is true exactly when
\* the reference list is empty; also once the tags have wrapped.
C34_WrapHarmless ==
    /\ lastPop.got = lastPop.want
    /\ pc[1] # "abort"
    /\ (Live /\ pc[1] = "idle") => (empty <=> control = <<>>)

\* C34: more ids were popped, and more linked, than a tag has values; the
\* tags of head_ and tail_ are back at a small value after passing MAX_TAG,
\* and the last pop returned an id.
C34_Witness ==
    /\ arch = "i386" /\ pc[1] = "idle"
    /\ Len(popped) > MAX_TAG_I386 + 1 /\ Len(enq) > MAX_TAG_I386 + 1
    /\ get_tag(head_) <= 1 /\ get_tag(tail_) <= 1
    /\ lastPop.got.ok

\* C35: whenever the CAS of enqueue on tail->next_ succeeds, the node it
\* acts on is the last node of the chain from head_: it is not on the free
\* list and no other thread holds it as the node it is about to link.
C35_LinkOnLiveTail ==
    [][\A p \in Procs :
        (pc[p] = "E_cas" /\ pc'[p] = "E_swing") =>
            /\ untag(tail[p]) = Chain[Len(Chain)]
            /\ \A i \in DOMAIN free_ : untag(free_[i]) # untag(tail[p])
            /\ \A q \in Procs \ {p} :
                  pc[q] \in {"assign", "E_tail", "E_next", "E_check", "E_cas"}
                      => untag(n[q]) # untag(tail[p])]_vars

\* The threads that hold node a privately: it came from alloc_node and is
\* not linked yet, or a CAS on head_ unlinked it and free_node has not run.
Holders(a) ==
    {p \in Procs :
        \/ pc[p] \in {"assign", "E_tail", "E_next", "E_check", "E_cas"}
              /\ untag(n[p]) = a
        \/ pc[p] = "D_free" /\ untag(h[p]) = a}

\* In how many places node a is: on the free list (once per handle), on the
\* chain from head_, held by a thread.
Places(a) ==
    Cardinality({i \in DOMAIN free_ : untag(free_[i]) = a})
    + (IF a \in Range(Chain) THEN 1 ELSE 0)
    + Cardinality(Holders(a))

\* C36: every node of a live queue is in exactly one place: on the free
\* list, on the chain from head_, or held by exactly one call in progress.
C36_ExclusiveLocation ==
    Live => \A a \in nodes : Places(a) = 1

\* C37: whenever head_ and tail_ hold the same address they hold the same
\* tag, so head_ == tail_ on the whole words is the comparison of the
\* addresses.
C37_HeadTailTagsAgree ==
    Live => (untag(head_) = untag(tail_) => get_tag(head_) = get_tag(tail_))

\* C37: head_ and tail_ meet at a node that is not the first sentinel, after
\* two dequeues and two moves of tail_, while a call is in progress.
C37_Witness ==
    /\ Live /\ untag(head_) = untag(tail_)
    /\ get_tag(head_) >= 2 /\ Len(deq) >= 2
    /\ ~Quiescent

====
